---- MODULE Spec2Model ----
(***************************************************************************)
(* Model of the assembly layout compiler of src/src/section.js: default    *)
(* resolution (applyModelDefaults), stacking (build), materialization      *)
(* (buildLayer, createUnitizedMesh, createUnitMesh) and material           *)
(* resolution (getMaterial).                                               *)
(*                                                                         *)
(* JavaScript values are tagged records [t, n, s]; positions are kept in   *)
(* half units (every coordinate is multiplied by 2) because the code       *)
(* halves thicknesses and grid extents.                                    *)
(***************************************************************************)
EXTENDS Integers, Sequences, FiniteSets, TLC

VARIABLES
    original,        \* the model as the caller passed it to the constructor
    model,           \* instance.model: the tree of layers (mutated by default resolution)
    defaults,        \* instance.options.defaultElement
    pc,              \* position of build(): idle, loop, done, threw, hung
    idx,             \* index of the next top-level layer of model.forEach
    thickness,       \* build's local thickness
    totalThickness,  \* build's local totalThickness (the running offset)
    group,           \* build's local group: the meshes added so far
    slots,           \* trace of (thickness, offset before, offset after) per layer
    scene,           \* the groups build() has added to instance.scene
    error,           \* the error the last build() raised
    builds           \* number of build() invocations so far

vars == <<original, model, defaults, pc, idx, thickness, totalThickness, group, slots,
          scene, error, builds>>

----------------------------------------------------------------------------
(* Bounds *)

MaxLayers == 2
MaxMembers == 1
MaxBuilds == 2

----------------------------------------------------------------------------
(* JavaScript values *)

Num(i) == [t |-> "num", n |-> i, s |-> ""]
Str(x) == [t |-> "str", n |-> 0, s |-> x]
Obj(x) == [t |-> "obj", n |-> 0, s |-> x]
Undef == [t |-> "undef", n |-> 0, s |-> ""]
Null == [t |-> "null", n |-> 0, s |-> ""]
NaN == [t |-> "nan", n |-> 0, s |-> ""]
Inf == [t |-> "inf", n |-> 0, s |-> ""]
NInf == [t |-> "ninf", n |-> 0, s |-> ""]

\* ToNumber on the values used as numbers: undefined is NaN, null is 0.
ToNumber(v) ==
    IF v.t = "undef" THEN NaN
    ELSE IF v.t = "null" THEN Num(0)
    ELSE IF v.t \in {"num", "nan", "inf", "ninf"} THEN v
    ELSE NaN

\* a < b
JsLt(a, b) ==
    LET x == ToNumber(a)
        y == ToNumber(b)
    IN  IF x.t = "nan" \/ y.t = "nan" THEN FALSE
        ELSE IF x.t = "ninf" THEN y.t # "ninf"
        ELSE IF x.t = "inf" THEN FALSE
        ELSE IF y.t = "inf" THEN TRUE
        ELSE IF y.t = "ninf" THEN FALSE
        ELSE x.n < y.n

\* -a
JsNeg(a) ==
    LET x == ToNumber(a)
    IN  IF x.t = "nan" THEN NaN
        ELSE IF x.t = "inf" THEN NInf
        ELSE IF x.t = "ninf" THEN Inf
        ELSE Num(-x.n)

\* a + b
JsAdd(a, b) ==
    LET x == ToNumber(a)
        y == ToNumber(b)
    IN  IF x.t = "nan" \/ y.t = "nan" THEN NaN
        ELSE IF x.t = "num" /\ y.t = "num" THEN Num(x.n + y.n)
        ELSE IF x.t = "num" THEN y
        ELSE IF y.t = "num" THEN x
        ELSE IF x.t = y.t THEN x
        ELSE NaN

\* a - b
JsSub(a, b) == JsAdd(a, JsNeg(b))

Sign(x) == IF x.t = "inf" THEN 1
           ELSE IF x.t = "ninf" THEN -1
           ELSE IF x.n > 0 THEN 1
           ELSE IF x.n < 0 THEN -1
           ELSE 0

\* a * b
JsMul(a, b) ==
    LET x == ToNumber(a)
        y == ToNumber(b)
    IN  IF x.t = "nan" \/ y.t = "nan" THEN NaN
        ELSE IF x.t = "num" /\ y.t = "num" THEN Num(x.n * y.n)
        ELSE IF Sign(x) * Sign(y) = 0 THEN NaN
        ELSE IF Sign(x) * Sign(y) > 0 THEN Inf
        ELSE NInf

\* ceil of a / b for integers a and b > 0
CeilPos(a, b) == -((-a) \div b)

\* Math.ceil(a / b)
JsCeilDiv(a, b) ==
    LET x == ToNumber(a)
        y == ToNumber(b)
    IN  IF x.t = "nan" \/ y.t = "nan" THEN NaN
        ELSE IF x.t # "num" /\ y.t # "num" THEN NaN
        ELSE IF y.t # "num" THEN Num(0)
        ELSE IF x.t # "num"
             THEN (IF (Sign(x) < 0) = (y.n < 0) THEN Inf ELSE NInf)
        ELSE IF y.n = 0
             THEN (IF x.n = 0 THEN NaN ELSE IF x.n > 0 THEN Inf ELSE NInf)
        ELSE IF y.n > 0 THEN Num(CeilPos(x.n, y.n))
        ELSE Num(CeilPos(-x.n, -y.n))

\* thickness || 0
OrZero(v) ==
    IF v.t \in {"undef", "null", "nan"} \/ (v.t = "num" /\ v.n = 0) \/ (v.t = "str" /\ v.s = "")
    THEN Num(0)
    ELSE v

\* Property read obj[key] on a record: undefined when the key is absent.
Get(obj, key) == IF key \in DOMAIN obj THEN obj[key] ELSE Undef

\* Reading a property of undefined or null raises a TypeError.
Nullish(v) == v.t \in {"undef", "null"}

----------------------------------------------------------------------------
(* Object literals referred to by element fields *)

\* The offset objects: the default element's (line 30) and a trimmed one.
OffsetSide(o, side) ==
    IF o.s = "trim"
    THEN Num(CASE side = "top" -> 10 [] side = "bottom" -> 10
               [] side = "left" -> 20 [] side = "right" -> 30
               [] side = "front" -> 1 [] OTHER -> 2)
    ELSE Num(0)

\* Whether a material object carries a texture property.
HasTexture(m) == m.t = "obj" /\ m.s = "textured"

----------------------------------------------------------------------------
(* The default element and the model tree *)

defaultElement ==
    [name |-> Str("element"),
     constructionPlane |-> Num(90),
     height |-> Num(500),
     width |-> Num(500),
     thickness |-> Num(10),
     color |-> Num(13421772),
     opacity |-> Num(1),
     material |-> Null,
     transparency |-> Num(1),
     type |-> Str("sheet"),
     offset |-> Obj("zero")]

\* options.defaultElement given by the caller replaces the default element whole.
userDefaultElement ==
    [type |-> Str("void"), width |-> Num(600), height |-> Num(300)]

NoFields == [k \in {} |-> Undef]

\* An element record
Elem(f) == [kind |-> "elem", items |-> <<>>, fields |-> f]

\* An array node; arrays are objects, so they can carry own properties too.
Arr(s) == [kind |-> "array", items |-> s, fields |-> NoFields]

IsArray(node) == node.kind = "array"

----------------------------------------------------------------------------
(* Default resolution *)

RECURSIVE applyModelDefaultsOverwriting(_, _)
\* applyModelDefaults without the hasOwnProperty test: defaults overwrite.
applyModelDefaultsOverwriting(node, d) ==
    IF IsArray(node)
    THEN [node EXCEPT !.items =
            [i \in 1..Len(node.items) |-> applyModelDefaultsOverwriting(node.items[i], d)]]
    ELSE [node EXCEPT !.fields =
            [key \in DOMAIN node.fields \cup DOMAIN d |->
                IF key \in DOMAIN d THEN d[key] ELSE node.fields[key]]]

RECURSIVE applyModelDefaults(_, _)
applyModelDefaults(node, d) ==
    IF IsArray(node)
    THEN [node EXCEPT !.items =
            [i \in 1..Len(node.items) |-> applyModelDefaults(node.items[i], d)]]
    ELSE [node EXCEPT !.fields =
            [key \in DOMAIN node.fields \cup DOMAIN d |->
                IF key \in DOMAIN node.fields THEN node.fields[key] ELSE d[key]]]

----------------------------------------------------------------------------
(* Meshes and the outcomes of a call *)

Origin == <<Num(0), Num(0), Num(0)>>

\* new THREE.Mesh(new THREE.BoxGeometry(width, height, thickness), mat)
Mesh(name, width, height, depth, mat) ==
    [k |-> "mesh", name |-> name, size |-> <<width, height, depth>>,
     mat |-> mat, pos |-> Origin, children |-> <<>>]

\* new THREE.Object3D() with the given children
Object3D(children) ==
    [k |-> "group", name |-> Str(""), size |-> <<>>, mat |-> "",
     pos |-> Origin, children |-> children]

\* the value of a variable that was never assigned
UndefinedMesh ==
    [k |-> "undefined", name |-> Str(""), size |-> <<>>, mat |-> "",
     pos |-> Origin, children |-> <<>>]

Ok(v) == [st |-> "ok", val |-> v, err |-> "none"]
Throw(e) == [st |-> "throw", val |-> UndefinedMesh, err |-> e]
Hang == [st |-> "hang", val |-> UndefinedMesh, err |-> "none"]

----------------------------------------------------------------------------
(* Material resolution *)

\* loads: whether THREE.ImageUtils.loadTexture returns (TRUE) or throws (FALSE).
getMaterial(material, loads) ==
    IF material.t = "obj" /\ HasTexture(material) /\ loads
    THEN [st |-> "ok", mat |-> "MeshBasicMaterial", err |-> "none"]
    ELSE IF Nullish(material)
    THEN [st |-> "throw", mat |-> "", err |-> "TypeError"]
    ELSE [st |-> "ok", mat |-> "MeshLambertMaterial", err |-> "none"]

createUnitMesh(name, width, height, depth, material, loads) ==
    LET mat == getMaterial(material, loads)
    IN  IF mat.st = "throw" THEN Throw(mat.err)
        ELSE Ok(Mesh(name, width, height, depth, mat.mat))

----------------------------------------------------------------------------
(* Grid tiling *)

\* The unit at row i, column j of the grid (lines 200-206).
GridUnit(unit, obj, i, j) ==
    [unit EXCEPT !.pos = <<JsMul(Num(2 * j), Get(obj, "width")),
                           JsMul(Num(2 * i), Get(obj, "height")),
                           Num(0)>>]

\* geom.position.set(...) of lines 212-215, in half units
GridPosition(obj, rows, cols) ==
    <<JsAdd(JsNeg(JsMul(cols, Get(obj, "width"))), Get(obj, "width")),
      JsAdd(JsNeg(JsMul(rows, Get(obj, "height"))), Get(obj, "height")),
      Num(0)>>

\* options.debug is false (line 18), so nothing is logged and no bounding-box
\* helper is added; the loops of lines 198-209 run rows * cols times, never end
\* when a count is Infinity, and stop at the first unit that raises an error.
createUnitizedMesh(obj, loads) ==
    LET rows == JsCeilDiv(Get(defaults, "height"), Get(obj, "height"))
        cols == JsCeilDiv(Get(defaults, "width"), Get(obj, "width"))
        off == Get(obj, "offset")
        unit == createUnitMesh(
                    Get(obj, "name"),
                    JsSub(JsSub(Get(obj, "width"), OffsetSide(off, "left")),
                          OffsetSide(off, "right")),
                    JsSub(JsSub(Get(obj, "height"), OffsetSide(off, "top")),
                          OffsetSide(off, "bottom")),
                    JsSub(JsSub(Get(obj, "thickness"), OffsetSide(off, "front")),
                          OffsetSide(off, "back")),
                    Get(obj, "material"), loads)
        empty == [Object3D(<<>>) EXCEPT !.pos = GridPosition(obj, rows, cols)]
    IN  IF ~JsLt(Num(0), rows) THEN Ok(empty)
        ELSE IF ~JsLt(Num(0), cols)
             THEN (IF rows.t = "inf" THEN Hang ELSE Ok(empty))
        ELSE IF Nullish(off) THEN Throw("TypeError")
        ELSE IF unit.st = "throw" THEN unit
        ELSE IF rows.t = "inf" \/ cols.t = "inf" THEN Hang
        ELSE Ok([Object3D([t \in 1..(rows.n * cols.n) |->
                             GridUnit(unit.val, obj,
                                      (t - 1) \div cols.n, (t - 1) % cols.n)])
                   EXCEPT !.pos = GridPosition(obj, rows, cols)])

----------------------------------------------------------------------------
(* Node materialization *)

TypeIs(layer, tag) ==
    LET ty == Get(layer.fields, "type") IN ty.t = "str" /\ ty.s = tag

\* The sheet branch of buildLayer (lines 158-164).
SheetMesh(layer, loads) ==
    LET off == Get(layer.fields, "offset")
    IN  IF Nullish(off) THEN Throw("TypeError")
        ELSE createUnitMesh(
                 Get(layer.fields, "name"),
                 Get(defaults, "width"),
                 Get(defaults, "height"),
                 JsSub(JsSub(Get(layer.fields, "thickness"), OffsetSide(off, "front")),
                       OffsetSide(off, "back")),
                 Get(layer.fields, "material"), loads)

\* ElementMesh with an unsupported type treated like a void.
ElementMeshUnknownEmpty(layer, loads) ==
    IF TypeIs(layer, "unit") THEN createUnitizedMesh(layer.fields, loads)
    ELSE IF TypeIs(layer, "frame") THEN Ok(UndefinedMesh)
    ELSE IF TypeIs(layer, "sheet") THEN SheetMesh(layer, loads)
    ELSE Ok(Object3D(<<>>))

\* The element branches of buildLayer (lines 150-166).
ElementMesh(layer, loads) ==
    IF TypeIs(layer, "unit") THEN createUnitizedMesh(layer.fields, loads)
    ELSE IF TypeIs(layer, "frame") THEN Ok(UndefinedMesh)
    ELSE IF TypeIs(layer, "void") THEN Ok(Object3D(<<>>))
    ELSE SheetMesh(layer, loads)

RECURSIVE buildLayer(_, _)
RECURSIVE BuildMembers(_, _, _, _)

\* layer.forEach(... members.push(buildLayer(subassembly))) from member i on;
\* members holds the results so far. The first error ends the loop.
BuildMembers(items, i, members, loads) ==
    IF i > Len(items) THEN Ok(Object3D(SelectSeq(members, LAMBDA m : m.k # "undefined")))
    ELSE LET r == buildLayer(items[i], loads)
         IN  IF r.st # "ok" THEN r
             ELSE BuildMembers(items, i + 1, Append(members, r.val), loads)

buildLayer(layer, loads) ==
    IF IsArray(layer) THEN BuildMembers(layer.items, 1, <<>>, loads)
    ELSE ElementMesh(layer, loads)

----------------------------------------------------------------------------
(* Stack assembly *)

RECURSIVE ReduceDeep(_, _, _)
\* Reduce descending into nested composites.
ReduceDeep(items, i, last) ==
    IF i > Len(items) THEN last
    ELSE LET current == IF IsArray(items[i])
                        THEN ReduceDeep(items[i].items, 1, Num(0))
                        ELSE Get(items[i].fields, "thickness")
         IN  ReduceDeep(items, i + 1, IF JsLt(last, current) THEN current ELSE last)

RECURSIVE Reduce(_, _, _)
\* layer.reduce(function (last, current) {...}, last) from member i on
Reduce(items, i, last) ==
    IF i > Len(items) THEN last
    ELSE LET current == Get(items[i].fields, "thickness")
         IN  Reduce(items, i + 1, IF JsLt(last, current) THEN current ELSE last)

\* lines 98-105
LayerThickness(layer) ==
    IF IsArray(layer) THEN Reduce(layer.items, 1, Num(0))
    ELSE Get(layer.fields, "thickness")

\* line 108
MinThickness == 5

FloorThickness(th) == IF JsLt(th, Num(MinThickness)) THEN Num(MinThickness) ELSE th

\* line 111: mesh.position.set(0, 0, totalThickness + (thickness / 2)), in half units
PlaceMesh(mesh, total, th) ==
    [mesh EXCEPT !.pos = <<Num(0), Num(0), JsAdd(JsMul(Num(2), total), th)>>]

\* line 114
Advance(total, th) == JsAdd(total, OrZero(th))

\* The running offset kept from one call to the next.
CarriedTotalThickness(previous) == previous

\* line 92: totalThickness = 0, whatever a previous call left behind
InitialTotalThickness(previous) == Num(0)

----------------------------------------------------------------------------
(* The models the instance is constructed with *)

Plain == Obj("plain")
Textured == Obj("textured")

\* Single elements, partially specified as callers write them.
TopElems ==
    { Elem(NoFields),
      Elem([material |-> Plain]),
      Elem([thickness |-> Num(2), material |-> Plain]),
      Elem([name |-> Str("osb"), thickness |-> Num(8), material |-> Plain,
            offset |-> Obj("trim")]),
      Elem([thickness |-> Num(12), material |-> Textured]),
      Elem([type |-> Str("void")]),
      Elem([type |-> Str("void"), thickness |-> Num(0)]),
      Elem([type |-> Str("void"), thickness |-> Num(-2)]),
      Elem([type |-> Str("void"), thickness |-> Undef]),
      Elem([type |-> Str("void"), thickness |-> Null]),
      Elem([type |-> Str("frame"), thickness |-> Num(8)]),
      Elem([type |-> Str("glass"), thickness |-> Num(3), material |-> Plain,
            offset |-> Obj("zero")]),
      Elem([type |-> Str("unit"), material |-> Plain, offset |-> Obj("zero")]),
      Elem([type |-> Str("unit"), width |-> Num(250), height |-> Num(250),
            material |-> Plain, offset |-> Obj("zero")]),
      Elem([type |-> Str("unit"), width |-> Num(200), height |-> Num(500),
            thickness |-> Num(8), material |-> Plain, offset |-> Obj("trim")]),
      Elem([type |-> Str("unit"), width |-> Num(0), height |-> Num(250),
            material |-> Plain, offset |-> Obj("zero")]),
      Elem([type |-> Str("unit"), width |-> Num(250), height |-> Num(0)]) }

\* The elements composites are built from.
MemberElems ==
    { Elem([thickness |-> Num(3), material |-> Plain, offset |-> Obj("zero")]),
      Elem([type |-> Str("void"), thickness |-> Num(8)]) }

SeqsUpTo(S, n) == UNION { [1..len -> S] : len \in 0..n }

\* Composites with a unit member, a frame member, members of thickness 3 and 8,
\* a nested composite.
FixedComposites ==
    { Arr(<<Elem([type |-> Str("unit"), width |-> Num(250), height |-> Num(250),
                  material |-> Plain, offset |-> Obj("zero")])>>),
      Arr(<<Elem([type |-> Str("frame")]), Elem([type |-> Str("void")])>>),
      Arr(<<Elem([thickness |-> Num(3), material |-> Plain, offset |-> Obj("zero")]),
            Elem([type |-> Str("void"), thickness |-> Num(8)])>>),
      Arr(<<Arr(<<Elem([type |-> Str("void"), thickness |-> Num(12)])>>),
            Elem([type |-> Str("void"), thickness |-> Num(3)])>>) }

Composites == { Arr(s) : s \in SeqsUpTo(MemberElems, MaxMembers) } \cup FixedComposites

Layers == TopElems \cup Composites

Models == { Arr(s) : s \in SeqsUpTo(Layers, MaxLayers) }

----------------------------------------------------------------------------
(* The state machine *)

Init ==
    /\ model \in Models
    /\ original = model
    /\ \/ defaults = defaultElement
       \/ defaults = userDefaultElement
    /\ pc = "idle"
    /\ idx = 0
    /\ thickness = Num(0)
    /\ totalThickness = Num(0)
    /\ group = <<>>
    /\ slots = <<>>
    /\ scene = <<>>
    /\ error = "none"
    /\ builds = 0

\* build() is called: lines 92-94.
BuildStart ==
    /\ pc \in {"idle", "done", "threw"}
    /\ builds < MaxBuilds
    /\ builds' = builds + 1
    /\ model' = applyModelDefaults(model, defaults)
    /\ group' = <<>>
    /\ thickness' = Num(0)
    /\ totalThickness' = InitialTotalThickness(totalThickness)
    /\ slots' = <<>>
    /\ idx' = 1
    /\ pc' = "loop"
    /\ error' = "none"
    /\ UNCHANGED <<original, defaults, scene>>

\* One iteration of model.forEach: lines 96-115.
BuildLayerStep ==
    /\ pc = "loop"
    /\ idx <= Len(model.items)
    /\ \E loads \in BOOLEAN :
         LET layer == model.items[idx]
             th == FloorThickness(LayerThickness(layer))
             r == buildLayer(layer, loads)
         IN  /\ thickness' = th
             /\ IF r.st = "hang"
                THEN /\ pc' = "hung"
                     /\ UNCHANGED <<idx, totalThickness, group, slots, error>>
                ELSE IF r.st = "throw" \/ r.val.k = "undefined"
                THEN /\ pc' = "threw"
                     /\ error' = "TypeError"
                     /\ UNCHANGED <<idx, totalThickness, group, slots>>
                ELSE /\ group' = Append(group, PlaceMesh(r.val, totalThickness, th))
                     /\ totalThickness' = Advance(totalThickness, th)
                     /\ slots' = Append(slots, [thickness |-> th,
                                                before |-> totalThickness,
                                                after |-> Advance(totalThickness, th)])
                     /\ idx' = idx + 1
                     /\ UNCHANGED <<pc, error>>
    /\ UNCHANGED <<original, model, defaults, scene, builds>>

\* The end of build(): lines 117-118.
BuildFinish ==
    /\ pc = "loop"
    /\ idx > Len(model.items)
    /\ scene' = Append(scene, Object3D(group))
    /\ pc' = "done"
    /\ UNCHANGED <<original, model, defaults, idx, thickness, totalThickness, group, slots,
                   error, builds>>

Next == BuildStart \/ BuildLayerStep \/ BuildFinish

Spec == Init /\ [][Next]_vars

----------------------------------------------------------------------------
(* What the specification says, stated independently of the code's operators *)

Max(a, b) == IF a >= b THEN a ELSE b

MaxOf(S) == CHOOSE x \in S : \A y \in S : y <= x

MinOf(S) == CHOOSE x \in S : \A y \in S : x <= y

\* The declared thickness of a node: its own thickness field, 0 when the field
\* is absent, undefined or falsy (an array has no such field).
Declared(node) ==
    LET v == Get(node.fields, "thickness")
    IN  IF v.t = "num" THEN v.n ELSE 0

\* The effective stacking thickness of section 4.2.
EffectiveThickness(layer) ==
    IF IsArray(layer)
    THEN Max(MinThickness, MaxOf({0} \cup {Declared(layer.items[j]) : j \in 1..Len(layer.items)}))
    ELSE Max(MinThickness, Declared(layer))

RECURSIVE SumThickness(_, _)
\* t_1 + ... + t_n over the top-level layers
SumThickness(layers, n) ==
    IF n = 0 THEN 0 ELSE SumThickness(layers, n - 1) + EffectiveThickness(layers[n])

\* The layers build() has placed so far.
Placed == 1..Len(group)

IsElem(node) == node.kind = "elem"

----------------------------------------------------------------------------
(* C1 *)

\* C1: stacking contiguity. Layer i is centered at t_1 + ... + t_(i-1) + t_i / 2
\* (in half units: twice the sum before plus t_i), the running offset never
\* decreases and is t_1 + ... + t_i after layer i, and the span of a finished
\* stack is t_1 + ... + t_N.
StackingContiguity ==
    /\ \A i \in Placed :
         /\ group[i].pos[3] =
                Num(2 * SumThickness(model.items, i - 1) + EffectiveThickness(model.items[i]))
         /\ slots[i].before = Num(SumThickness(model.items, i - 1))
         /\ slots[i].after = Num(SumThickness(model.items, i))
         /\ ~JsLt(slots[i].after, slots[i].before)
    /\ pc = "done" => totalThickness = Num(SumThickness(model.items, Len(model.items)))

----------------------------------------------------------------------------
(* C2 *)

\* C2: thickness floor. The thickness build() uses for every layer it has
\* handled is a number and at least 5.
ThicknessFloor ==
    /\ \A i \in Placed : slots[i].thickness.t = "num" /\ slots[i].thickness.n >= MinThickness
    /\ pc \in {"done", "threw", "hung"} /\ Len(model.items) > 0
         => thickness.t = "num" /\ thickness.n >= MinThickness

----------------------------------------------------------------------------
(* C3 *)

RECURSIVE Resolved(_, _, _)
\* node m is node o after default resolution with the defaults record d
Resolved(o, m, d) ==
    IF IsArray(o)
    THEN /\ IsArray(m)
         /\ m.fields = NoFields
         /\ Len(m.items) = Len(o.items)
         /\ \A i \in 1..Len(o.items) : Resolved(o.items[i], m.items[i], d)
    ELSE /\ IsElem(m)
         /\ DOMAIN d \subseteq DOMAIN m.fields
         /\ \A key \in DOMAIN o.fields :
              key \in DOMAIN m.fields /\ m.fields[key] = o.fields[key]

\* C3: default completeness. After default resolution every leaf element has
\* every key of the defaults record, fields that were present keep their value,
\* and arrays receive no default fields.
DefaultCompleteness == builds > 0 => Resolved(original, model, defaults)

\* A resolved model with a nested composite whose element had a thickness of
\* its own (not the default's) and no material.
DefaultCompletenessWitness ==
    /\ builds > 0
    /\ defaults = defaultElement
    /\ \E i \in 1..Len(model.items) :
         /\ IsArray(model.items[i])
         /\ \E j \in 1..Len(model.items[i].items) :
              LET o == original.items[i].items[j]
                  m == model.items[i].items[j]
              IN  /\ IsArray(m)
                  /\ Len(m.items) > 0
                  /\ "material" \notin DOMAIN o.items[1].fields
                  /\ m.items[1].fields["material"] = Null
                  /\ m.items[1].fields["thickness"] = Num(12)

----------------------------------------------------------------------------
(* C4 *)

\* A unit element whose own and coverage dimensions are positive numbers.
PositiveUnit(node) ==
    /\ IsElem(node)
    /\ TypeIs(node, "unit")
    /\ \A key \in {"width", "height"} :
         /\ Get(node.fields, key).t = "num" /\ Get(node.fields, key).n > 0
         /\ Get(defaults, key).t = "num" /\ Get(defaults, key).n > 0

\* Twice the center of the grid's bounding box on an axis, in the frame of the
\* grid's parent: the units are equal boxes centered on their positions.
BoxCenter(grid, axis) ==
    LET centers == { grid.pos[axis].n + grid.children[t].pos[axis].n :
                       t \in 1..Len(grid.children) }
    IN  MinOf(centers) + MaxOf(centers)

GridCovers(grid, node) ==
    /\ grid.k = "group"
    /\ Len(grid.children) =
         CeilPos(defaults["width"].n, node.fields["width"].n)
           * CeilPos(defaults["height"].n, node.fields["height"].n)
    /\ grid.pos[1].t = "num" /\ grid.pos[2].t = "num"
    /\ BoxCenter(grid, 1) = 0
    /\ BoxCenter(grid, 2) = 0

\* C4: grid coverage and centering. A unit layer yields ceil(W/w) * ceil(H/h)
\* units and its bounding box is centered on X and Y in the output of build(),
\* as a top-level layer and as a member of a composite.
GridCoverage ==
    \A i \in Placed :
        LET layer == model.items[i]
        IN  /\ PositiveUnit(layer) => GridCovers(group[i], layer)
            /\ IsArray(layer) /\ Len(group[i].children) = Len(layer.items) =>
                 /\ group[i].pos[1] = Num(0) /\ group[i].pos[2] = Num(0)
                 /\ \A j \in 1..Len(layer.items) :
                      PositiveUnit(layer.items[j]) =>
                          GridCovers(group[i].children[j], layer.items[j])

----------------------------------------------------------------------------
(* C5 *)

\* A sheet or unit element that is well formed but for its material, which
\* default resolution left null.
NullMaterialElement(node) ==
    /\ IsElem(node)
    /\ Get(node.fields, "material") = Null
    /\ ~Nullish(Get(node.fields, "offset"))
    /\ \/ TypeIs(node, "sheet")
       \/ PositiveUnit(node)

\* C5: null-material fallback. build() raises no error at a sheet or unit
\* element whose material is null, and the volume it adds carries a material.
NullMaterialFallback ==
    /\ ~(/\ pc = "threw"
         /\ idx <= Len(model.items)
         /\ NullMaterialElement(model.items[idx]))
    /\ \A i \in Placed :
         NullMaterialElement(model.items[i]) /\ TypeIs(model.items[i], "sheet")
            => group[i].k = "mesh" /\ group[i].mat # ""

----------------------------------------------------------------------------
(* C6 *)

\* A unit element whose height or width is 0 or missing.
DegenerateUnit(node) ==
    /\ IsElem(node)
    /\ TypeIs(node, "unit")
    /\ \E key \in {"width", "height"} :
         Get(node.fields, key) \in {Num(0), Undef, Null}

\* build() has handled top-level layer i: placed it, or stopped at it.
Handled(i) == i \in Placed \/ (idx = i /\ pc \in {"threw", "hung"})

\* C6: degenerate unit dimensions. A unit element of height or width 0 makes
\* build() fail with a ConfigurationError: the call ends, at that layer, and
\* nothing of it reaches the scene.
DegenerateUnitFails ==
    \A i \in 1..Len(model.items) :
        DegenerateUnit(model.items[i]) /\ Handled(i) =>
            /\ pc = "threw"
            /\ idx = i
            /\ error = "ConfigurationError"

----------------------------------------------------------------------------
(* C7 *)

\* C7: frame layers do not crash the build. A frame layer, top-level or member
\* of a composite, raises no error, contributes an empty group, and the running
\* offset advances by its effective thickness.
FrameDoesNotCrash ==
    /\ ~(/\ pc = "threw"
         /\ idx <= Len(model.items)
         /\ IsElem(model.items[idx])
         /\ TypeIs(model.items[idx], "frame"))
    /\ \A i \in Placed :
         LET layer == model.items[i]
         IN  /\ IsElem(layer) /\ TypeIs(layer, "frame") =>
                  /\ group[i] = PlaceMesh(Object3D(<<>>), slots[i].before, slots[i].thickness)
                  /\ slots[i].after = JsAdd(slots[i].before, Num(EffectiveThickness(layer)))
             /\ IsArray(layer) =>
                  \A j \in 1..Len(layer.items) :
                      IsElem(layer.items[j]) /\ TypeIs(layer.items[j], "frame") =>
                          /\ Len(group[i].children) = Len(layer.items)
                          /\ group[i].children[j] = Object3D(<<>>)

----------------------------------------------------------------------------
(* C8 *)

KnownTypes == {"sheet", "unit", "frame", "void"}

\* An element whose type is none of the given tags.
TypeOutside(node, tags) ==
    /\ IsElem(node)
    /\ \A tag \in tags : ~TypeIs(node, tag)

AsSheet(node) == [node EXCEPT !.fields = [key \in DOMAIN node.fields \cup {"type"} |->
                     IF key = "type" THEN Str("sheet") ELSE node.fields[key]]]

----------------------------------------------------------------------------
(* C9 *)

RECURSIVE Geometry(_)
\* The geometry of a volume: kinds, sizes and positions, without materials.
Geometry(mesh) ==
    [k |-> mesh.k, size |-> mesh.size, pos |-> mesh.pos,
     children |-> [t \in 1..Len(mesh.children) |-> Geometry(mesh.children[t])]]

\* C9: idempotence. Every build() of the instance that completes yields the
\* same geometry, the second one running on the model the first one resolved.
Idempotence ==
    \A a, b \in 1..Len(scene) : Geometry(scene[a]) = Geometry(scene[b])

\* Two completed builds of a model of two layers, at least one of which the
\* first build's default resolution changed, with a non-zero stack.
IdempotenceWitness ==
    /\ Len(scene) >= 2
    /\ Len(scene[2].children) >= 2
    /\ original # model
    /\ JsLt(Num(MinThickness), totalThickness)

----------------------------------------------------------------------------
(* C10 *)

====
